---- MODULE Spec2Model ----
(***************************************************************************)
(* Cipher sessions of rust-gcrypt (src/cipher.rs): the safe wrapper around *)
(* the native cipher context of libgcrypt.  The wrapper code is modelled   *)
(* from the source; the native library, the error type and the lazy        *)
(* initialisation it calls into are modelled from the specification.       *)
(***************************************************************************)
EXTENDS Integers, Sequences, FiniteSets, TLC

\* ------------------------------------------------------------------ bounds
\* Native contexts that can be opened in one run (handles are never reused).
MaxOpens == 2
\* Longest byte string passed as key, IV, AAD, tag, input or output buffer.
MaxLen == 2

\* ------------------------------------------------------- native status codes
GPG_ERR_NO_ERROR == 0
GPG_ERR_CHECKSUM == 10
GPG_ERR_CIPHER_ALGO == 12
GPG_ERR_INV_KEYLEN == 44
GPG_ERR_INV_ARG == 45
GPG_ERR_INV_CIPHER_MODE == 71
GPG_ERR_INV_LENGTH == 139
GPG_ERR_INV_STATE == 156
GPG_ERR_MISSING_KEY == 181
GPG_ERR_BUFFER_TOO_SHORT == 200
GPG_ERR_ENOMEM == 32854

\* The cipher-state-violation category of the error taxonomy.
IsStateError(code) == code \in {GPG_ERR_INV_STATE, GPG_ERR_MISSING_KEY}

\* ------------------------------------------------------------------- values
Byte == {0, 1}
Xor(a, b) == (a + b) % 2

RECURSIVE SeqsUpTo(_)
SeqsUpTo(n) ==
    IF n = 0 THEN {<<>>}
    ELSE SeqsUpTo(n - 1) \cup [1..n -> Byte]

Bytes == SeqsUpTo(MaxLen)

RECURSIVE Parity(_)
Parity(s) == IF s = <<>> THEN 0 ELSE Xor(Head(s), Parity(Tail(s)))

Take(s, n) == SubSeq(s, 1, n)
Drop_(s, n) == SubSeq(s, n + 1, Len(s))

\* Algorithm and Mode enumerations (the subset the model draws from).
Algorithm == {"Aes128"}
Mode == {"Cbc", "Ctr", "Gcm", "Stream"}
AeadModes == {"Gcm"}

\* Flags: bit values of the session-creation options.
FLAG_NONE == 0
FLAG_SECURE == 1
FLAG_CBC_CTS == 4
FLAG_CBC_MAC == 8
HasFlag(flags, bit) == (flags \div bit) % 2 = 1
Flags == {FLAG_NONE, FLAG_SECURE, FLAG_CBC_CTS + FLAG_CBC_MAC}

\* Names and OIDs handed to the catalog lookups.
Names == {"AES", "nope"}
Oids == {"2.16.840.1.101.3.4.1.2", "0.0"}

\* --------------------------------------------------- native library (model)
\* Lengths the native library reports, scaled to the model's byte strings.
gcry_cipher_get_algo_keylen(algo) == IF algo = "Aes128" THEN 2 ELSE 0
gcry_cipher_get_algo_blklen(algo) == IF algo = "Aes128" THEN 2 ELSE 0
gcry_cipher_map_name(name) == IF name = "AES" THEN "Aes128" ELSE "0"
gcry_cipher_mode_from_oid(oid) == IF oid = "2.16.840.1.101.3.4.1.2" THEN "Cbc" ELSE "0"
gcry_cipher_test_algo(algo) == IF algo \in Algorithm THEN 0 ELSE GPG_ERR_CIPHER_ALGO
gcry_cipher_algo_name(algo) == IF algo = "Aes128" THEN "AES" ELSE "?"
IvLen(mode) == 1
TagLen(mode) == 1

NULL == 0
Handles == 1..MaxOpens
\* ptr::null() where a byte buffer is expected.
NullPtr == <<-1>>
IsNull(p) == Len(p) = 1 /\ p[1] = -1

\* A native context.  phase: "free" (never opened), "live", "closed".
\* st is the configuration state of section 4.4; chain is the cipher's
\* chaining value, auth the authentication state over AAD and ciphertext.
NoCtx ==
    [phase |-> "free", algo |-> "0", mode |-> "0", st |-> "Unopened",
     key |-> <<>>, iv |-> <<>>, chain |-> 0, auth |-> 0]

ClosedCtx == [NoCtx EXCEPT !.phase = "closed"]

OpenedCtx(algo, mode) ==
    [NoCtx EXCEPT !.phase = "live", !.algo = algo, !.mode = mode, !.st = "Open"]

\* Status of gcry_cipher_open for (algo, mode, flags); oom is the allocator failing.
open_status(algo, mode, flags, oom) ==
    IF HasFlag(flags, FLAG_CBC_CTS) /\ HasFlag(flags, FLAG_CBC_MAC)
    THEN GPG_ERR_CIPHER_ALGO
    ELSE IF mode = "Stream" /\ gcry_cipher_get_algo_blklen(algo) # 0
         THEN GPG_ERR_INV_CIPHER_MODE
    ELSE IF oom THEN GPG_ERR_ENOMEM
    ELSE GPG_ERR_NO_ERROR

\* Each native entry point below returns [status, ctx, out]: the status code,
\* the context after the call and the output buffer after the call.
NativeRet(status, c, out) == [status |-> status, ctx |-> c, out |-> out]

gcry_cipher_setkey(c, key, keylen) ==
    IF keylen # gcry_cipher_get_algo_keylen(c.algo)
    THEN NativeRet(GPG_ERR_INV_KEYLEN, c, <<>>)
    ELSE NativeRet(GPG_ERR_NO_ERROR,
                   [c EXCEPT !.st = "Keyed", !.key = Take(key, keylen),
                             !.iv = <<>>, !.chain = 0, !.auth = 0],
                   <<>>)

gcry_cipher_setiv(c, iv, ivlen) ==
    IF c.st = "Open" THEN NativeRet(GPG_ERR_MISSING_KEY, c, <<>>)
    ELSE IF c.st \notin {"Keyed", "Ready"} THEN NativeRet(GPG_ERR_INV_STATE, c, <<>>)
    ELSE IF ivlen # IvLen(c.mode) THEN NativeRet(GPG_ERR_INV_LENGTH, c, <<>>)
    ELSE NativeRet(GPG_ERR_NO_ERROR,
                   [c EXCEPT !.st = "Ready", !.iv = Take(iv, ivlen),
                             !.chain = Parity(Take(iv, ivlen))],
                   <<>>)

gcry_cipher_setctr(c, ctr, ctrlen) ==
    IF c.st = "Open" THEN NativeRet(GPG_ERR_MISSING_KEY, c, <<>>)
    ELSE IF c.st \notin {"Keyed", "Ready"} THEN NativeRet(GPG_ERR_INV_STATE, c, <<>>)
    ELSE IF ctrlen # IvLen(c.mode) THEN NativeRet(GPG_ERR_INV_ARG, c, <<>>)
    ELSE IF c.mode # "Ctr" THEN NativeRet(GPG_ERR_NO_ERROR, c, <<>>)
    ELSE NativeRet(GPG_ERR_NO_ERROR,
                   [c EXCEPT !.st = "Ready", !.iv = Take(ctr, ctrlen),
                             !.chain = Parity(Take(ctr, ctrlen))],
                   <<>>)

gcry_cipher_reset(c) ==
    IF c.st = "Open" THEN NativeRet(GPG_ERR_NO_ERROR, c, <<>>)
    ELSE NativeRet(GPG_ERR_NO_ERROR,
                   [c EXCEPT !.st = "Keyed", !.iv = <<>>, !.chain = 0, !.auth = 0],
                   <<>>)

gcry_cipher_authenticate(c, bytes, len) ==
    IF c.mode \notin AeadModes THEN NativeRet(GPG_ERR_INV_CIPHER_MODE, c, <<>>)
    ELSE IF c.st = "Open" THEN NativeRet(GPG_ERR_MISSING_KEY, c, <<>>)
    ELSE IF c.st \notin {"Ready", "Authenticating"}
         THEN NativeRet(GPG_ERR_INV_STATE, c, <<>>)
    ELSE NativeRet(GPG_ERR_NO_ERROR,
                   [c EXCEPT !.st = "Authenticating",
                             !.auth = Xor(c.auth, Parity(Take(bytes, len)))],
                   <<>>)

\* The tag an AEAD context holds for what it has processed so far.
ComputedTag(c) == <<Xor(c.auth, Xor(Parity(c.key), Parity(c.iv)))>>

gcry_cipher_gettag(c, tag, taglen) ==
    IF c.mode \notin AeadModes THEN NativeRet(GPG_ERR_INV_CIPHER_MODE, c, tag)
    ELSE IF c.st = "Open" THEN NativeRet(GPG_ERR_MISSING_KEY, c, tag)
    ELSE IF c.st # "Operative" THEN NativeRet(GPG_ERR_INV_STATE, c, tag)
    ELSE IF taglen # TagLen(c.mode) THEN NativeRet(GPG_ERR_INV_LENGTH, c, tag)
    ELSE NativeRet(GPG_ERR_NO_ERROR, c, ComputedTag(c) \o Drop_(tag, taglen))

gcry_cipher_checktag(c, tag, taglen) ==
    IF c.mode \notin AeadModes THEN NativeRet(GPG_ERR_INV_CIPHER_MODE, c, <<>>)
    ELSE IF c.st = "Open" THEN NativeRet(GPG_ERR_MISSING_KEY, c, <<>>)
    ELSE IF c.st # "Operative" THEN NativeRet(GPG_ERR_INV_STATE, c, <<>>)
    ELSE IF taglen # TagLen(c.mode) THEN NativeRet(GPG_ERR_INV_LENGTH, c, <<>>)
    ELSE IF Take(tag, taglen) # ComputedTag(c) THEN NativeRet(GPG_ERR_CHECKSUM, c, <<>>)
    ELSE NativeRet(GPG_ERR_NO_ERROR, c, <<>>)

\* The keyed, chained byte transformation: every output byte depends on the
\* key, on the chaining value and on the input byte.
RECURSIVE EncBytes(_, _, _)
EncBytes(k, chain, in) ==
    IF in = <<>> THEN [out |-> <<>>, chain |-> chain]
    ELSE LET b == Xor(Xor(Head(in), k), chain)
             r == EncBytes(k, b, Tail(in))
         IN [out |-> <<b>> \o r.out, chain |-> r.chain]

RECURSIVE DecBytes(_, _, _)
DecBytes(k, chain, in) ==
    IF in = <<>> THEN [out |-> <<>>, chain |-> chain]
    ELSE LET b == Xor(Xor(Head(in), k), chain)
             r == DecBytes(k, Head(in), Tail(in))
         IN [out |-> <<b>> \o r.out, chain |-> r.chain]

\* AEAD modes fold the ciphertext into the authentication state.
Authed(c, ciphertext) ==
    IF c.mode \in AeadModes THEN Xor(c.auth, Parity(ciphertext)) ELSE c.auth

\* Checks shared by gcry_cipher_encrypt and gcry_cipher_decrypt.
crypt_status(c, outsize, inlen) ==
    IF c.st = "Open" THEN GPG_ERR_MISSING_KEY
    ELSE IF c.st = "Keyed" THEN GPG_ERR_INV_STATE
    ELSE IF outsize < inlen THEN GPG_ERR_BUFFER_TOO_SHORT
    ELSE IF c.mode = "Cbc" /\ inlen % gcry_cipher_get_algo_blklen(c.algo) # 0
         THEN GPG_ERR_INV_LENGTH
    ELSE GPG_ERR_NO_ERROR

\* A null input pointer selects in-place operation: the input is the output
\* buffer, over its whole size.
gcry_cipher_encrypt(c, out, outsize, in, inlen) ==
    LET src == IF IsNull(in) THEN Take(out, outsize) ELSE Take(in, inlen)
        status == crypt_status(c, outsize, Len(src))
        r == EncBytes(Parity(c.key), c.chain, src)
    IN IF status # GPG_ERR_NO_ERROR THEN NativeRet(status, c, out)
       ELSE NativeRet(GPG_ERR_NO_ERROR,
                      [c EXCEPT !.st = "Operative", !.chain = r.chain,
                                !.auth = Authed(c, r.out)],
                      r.out \o Drop_(out, Len(src)))

gcry_cipher_decrypt(c, out, outsize, in, inlen) ==
    LET src == IF IsNull(in) THEN Take(out, outsize) ELSE Take(in, inlen)
        status == crypt_status(c, outsize, Len(src))
        r == DecBytes(Parity(c.key), c.chain, src)
    IN IF status # GPG_ERR_NO_ERROR THEN NativeRet(status, c, out)
       ELSE NativeRet(GPG_ERR_NO_ERROR,
                      [c EXCEPT !.st = "Operative", !.chain = r.chain,
                                !.auth = Authed(c, src)],
                      r.out \o Drop_(out, Len(src)))

\* ------------------------------------------------------------ error plumbing
\* crate::Result: Ok(()) or Err(Error) with the native status code inside.
Ok == [ok |-> TRUE, code |-> GPG_ERR_NO_ERROR]
Err(code) == [ok |-> FALSE, code |-> code]
\* return_err!: leave the function with Err(status) unless the status is 0.
return_err(status) == IF status = GPG_ERR_NO_ERROR THEN Ok ELSE Err(status)

\* -------------------------------------------------------------------- state
\* Scopes that can own a Session (a Cipher value lives in at most one).
Owners == {"a", "b"}
NoSession == -1

VARIABLES
    ctx,               \* native contexts, by handle (NULL included)
    closes,            \* gcry_cipher_close calls received, by handle
    nextHandle,        \* the handle the next successful open returns
    sessions,          \* Cipher values: owner -> wrapped handle, or NoSession
    initialized,       \* crate::init_default() has been triggered
    calledBeforeInit,  \* a native call was issued before initialization
    last,              \* the latest invocation: arguments, native calls, result
    scen,              \* the scripted usage being played and its results so far
    active             \* owner -> threads holding a borrow of its Session

vars == <<ctx, closes, nextHandle, sessions, initialized, calledBeforeInit, last,
          scen, active>>

\* A native call as issued: entry point, handle, integer argument (a length,
\* or the flag bits of an open), status returned, and whether the handle was
\* a live context when the call was made.
Call(fn, h, n, status) ==
    [fn |-> fn, h |-> h, n |-> n, status |-> status,
     live |-> (h \in Handles /\ ctx[h].phase = "live")]

NoLast ==
    [op |-> "none", owner |-> "-", h |-> NULL, calls |-> <<>>, ret |-> Ok,
     pre |-> NoCtx, arg |-> <<>>, outBefore |-> <<>>, outAfter |-> <<>>,
     val |-> "-", num |-> 0]

\* No scripted usage: callers invoke the entry points freely.
NoScen == [kind |-> "none", pc |-> 0, res |-> <<>>]

\* Process start with usage sc scripted (NoScen: none).
InitWith(sc) ==
    /\ ctx = [h \in {NULL} \cup Handles |-> NoCtx]
    /\ closes = [h \in {NULL} \cup Handles |-> 0]
    /\ nextHandle = 1
    /\ sessions = [o \in Owners |-> NoSession]
    /\ initialized = FALSE
    /\ calledBeforeInit = FALSE
    /\ last = NoLast
    /\ scen = sc
    /\ active = [o \in Owners |-> {}]

Init == InitWith(NoScen)

\* A native call issued while init says whether initialization had run.
NoteNative(init) == calledBeforeInit' = (calledBeforeInit \/ ~init)

\* Cipher::as_raw: the wrapped handle.
as_raw(cipher) == cipher

\* Byte strings callers pass: for every length the all-ones string and the
\* string 0..01.
Args == {b \in Bytes : Len(b) > 0 => (b[Len(b)] = 1 /\ \A i \in 1..(Len(b) - 1) : b[i] = b[1])}
\* Caller-supplied output buffers: allocated and filled before the call.
OutBufs == {b \in Bytes : \A i \in 1..Len(b) : b[i] = 1}
\* Modes sessions are opened with.
OpenModes == {"Cbc", "Gcm", "Stream"}

\* ------------------------------------------------------- Algorithm and Mode
CatalogLast(op, fn, val, num) ==
    [NoLast EXCEPT !.op = op, !.calls = <<Call(fn, NULL, 0, GPG_ERR_NO_ERROR)>>,
                   !.val = val, !.num = num]

Catalog(op, fn, val, num, init) ==
    /\ initialized' = init
    /\ NoteNative(init)
    /\ last' = CatalogLast(op, fn, val, num)
    /\ UNCHANGED <<ctx, closes, nextHandle, sessions>>

from_name(name) ==
    LET result == gcry_cipher_map_name(name)
    IN Catalog("from_name", "gcry_cipher_map_name",
               IF result # "0" THEN result ELSE "None", 0, initialized)

is_available(algo) ==
    Catalog("is_available", "gcry_cipher_test_algo",
            IF gcry_cipher_test_algo(algo) = 0 THEN "true" ELSE "false", 0, TRUE)

name_raw(algo) == gcry_cipher_algo_name(algo)

name(algo) ==
    Catalog("name", "gcry_cipher_algo_name", name_raw(algo), 0, initialized)

key_len(algo) ==
    Catalog("key_len", "gcry_cipher_get_algo_keylen", "-",
            gcry_cipher_get_algo_keylen(algo), initialized)

block_len(algo) ==
    Catalog("block_len", "gcry_cipher_get_algo_blklen", "-",
            gcry_cipher_get_algo_blklen(algo), initialized)

from_oid(oid) ==
    LET result == gcry_cipher_mode_from_oid(oid)
    IN Catalog("from_oid", "gcry_cipher_mode_from_oid",
               IF result # "0" THEN result ELSE "None", 0, initialized)

\* ------------------------------------------------------------------ Cipher
\* Mutant of with_flags: the status of gcry_cipher_open is not looked at and
\* the handle, NULL after a failure, is wrapped all the same.
with_flags_unchecked(o, algo, mode, flags, oom) ==
    LET status == open_status(algo, mode, flags, oom)
        handle == IF status = GPG_ERR_NO_ERROR THEN nextHandle ELSE NULL
    IN /\ sessions[o] = NoSession
       /\ status = GPG_ERR_NO_ERROR => nextHandle <= MaxOpens
       /\ initialized' = TRUE
       /\ NoteNative(TRUE)
       /\ last' = [NoLast EXCEPT
                      !.op = "open", !.owner = o, !.h = handle,
                      !.calls = <<Call("gcry_cipher_open", handle, flags, status)>>,
                      !.ret = Ok, !.val = "Cipher"]
       /\ ctx' = IF status = GPG_ERR_NO_ERROR
                 THEN [ctx EXCEPT ![handle] = OpenedCtx(algo, mode)] ELSE ctx
       /\ nextHandle' = IF status = GPG_ERR_NO_ERROR THEN nextHandle + 1 ELSE nextHandle
       /\ sessions' = [sessions EXCEPT ![o] = handle]
       /\ UNCHANGED closes

\* Cipher::with_flags into owner o.  On a non-zero status return_err! leaves
\* before Cipher::from_raw: the handle stays NULL and no Cipher exists.
with_flags(o, algo, mode, flags, oom) ==
    LET status == open_status(algo, mode, flags, oom)
        handle == IF status = GPG_ERR_NO_ERROR THEN nextHandle ELSE NULL
    IN /\ sessions[o] = NoSession
       /\ status = GPG_ERR_NO_ERROR => nextHandle <= MaxOpens
       /\ initialized' = TRUE
       /\ NoteNative(TRUE)
       /\ last' = [NoLast EXCEPT
                      !.op = "open", !.owner = o, !.h = handle,
                      !.calls = <<Call("gcry_cipher_open", handle, flags, status)>>,
                      !.ret = return_err(status),
                      !.val = IF status = GPG_ERR_NO_ERROR THEN "Cipher" ELSE "-"]
       /\ IF status = GPG_ERR_NO_ERROR
          THEN /\ ctx' = [ctx EXCEPT ![handle] = OpenedCtx(algo, mode)]
               /\ nextHandle' = nextHandle + 1
               /\ sessions' = [sessions EXCEPT ![o] = handle]
          ELSE UNCHANGED <<ctx, nextHandle, sessions>>
       /\ UNCHANGED closes

\* Mutant of new: the context is opened in secure memory.
new_secure(o, algo, mode, oom) == with_flags(o, algo, mode, FLAG_SECURE, oom)

new(o, algo, mode, oom) == with_flags(o, algo, mode, FLAG_NONE, oom)

\* Mutant of drop: the Session goes away without gcry_cipher_close.
drop_without_close(o) ==
    /\ sessions[o] # NoSession
    /\ sessions' = [sessions EXCEPT ![o] = NoSession]
    /\ last' = [NoLast EXCEPT !.op = "drop", !.owner = o, !.h = as_raw(sessions[o]),
                              !.pre = ctx[as_raw(sessions[o])]]
    /\ UNCHANGED <<ctx, closes, nextHandle, initialized, calledBeforeInit>>

\* Mutant of drop: the context is closed but the Cipher stays usable, as an
\* explicit close(&mut self) would leave it.
drop_leaving_handle(o) ==
    /\ sessions[o] # NoSession
    /\ closes[as_raw(sessions[o])] = 0
    /\ LET h == as_raw(sessions[o])
       IN /\ closes' = [closes EXCEPT ![h] = @ + 1]
          /\ ctx' = [ctx EXCEPT ![h] = ClosedCtx]
          /\ last' = [NoLast EXCEPT
                         !.op = "drop", !.owner = o, !.h = h, !.pre = ctx[h],
                         !.calls = <<Call("gcry_cipher_close", h, 0, GPG_ERR_NO_ERROR)>>]
    /\ NoteNative(initialized)
    /\ UNCHANGED <<nextHandle, initialized, sessions>>

\* impl Drop for Cipher: the Session in owner o goes out of scope.
drop(o) ==
    /\ sessions[o] # NoSession
    /\ LET h == as_raw(sessions[o])
       IN /\ closes' = [closes EXCEPT ![h] = @ + 1]
          /\ ctx' = [ctx EXCEPT ![h] = IF h = NULL THEN @ ELSE ClosedCtx]
          /\ last' = [NoLast EXCEPT
                         !.op = "drop", !.owner = o, !.h = h, !.pre = ctx[h],
                         !.calls = <<Call("gcry_cipher_close", h, 0, GPG_ERR_NO_ERROR)>>]
    /\ sessions' = [sessions EXCEPT ![o] = NoSession]
    /\ NoteNative(initialized)
    /\ UNCHANGED <<nextHandle, initialized>>

\* Mutant of move: the Cipher is copied, the source keeps its handle.
move_copying(from, to) ==
    /\ sessions[from] # NoSession
    /\ sessions[to] = NoSession
    /\ sessions' = [sessions EXCEPT ![to] = sessions[from]]
    /\ last' = [NoLast EXCEPT !.op = "move", !.owner = to, !.h = sessions[from]]
    /\ UNCHANGED <<ctx, closes, nextHandle, initialized, calledBeforeInit>>

\* A Cipher is not Clone or Copy: handing it to another owner moves it.
move(from, to) ==
    /\ sessions[from] # NoSession
    /\ sessions[to] = NoSession
    /\ sessions' = [sessions EXCEPT ![to] = sessions[from], ![from] = NoSession]
    /\ last' = [NoLast EXCEPT !.op = "move", !.owner = to, !.h = sessions[from]]
    /\ UNCHANGED <<ctx, closes, nextHandle, initialized, calledBeforeInit>>

\* The shape shared by the &mut self methods: the native calls issued on the
\* wrapped handle, the context and buffer they leave, and the value returned.
Invoke(o, op, calls, r, ret, arg, outBefore) ==
    LET h == as_raw(sessions[o])
    IN /\ ctx' = [ctx EXCEPT ![h] = r.ctx]
       /\ last' = [NoLast EXCEPT
                      !.op = op, !.owner = o, !.h = h, !.pre = ctx[h],
                      !.calls = calls, !.ret = ret,
                      !.arg = arg, !.outBefore = outBefore, !.outAfter = r.out]
       /\ NoteNative(initialized)
       /\ UNCHANGED <<closes, nextHandle, sessions, initialized>>

\* unsafe { return_err!(ffi::fn(self.as_raw(), ptr, n)); } Ok(()): one native
\* call, whose result is r, and the Result made of its status.
Method(o, op, fn, n, r, arg, outBefore) ==
    Invoke(o, op, <<Call(fn, as_raw(sessions[o]), n, r.status)>>, r,
           return_err(r.status), arg, outBefore)

\* Mutant of set_key: a key shorter than the algorithm's key length is padded
\* with zero bytes before it is handed to the native layer.
set_key_padding(o, key) ==
    LET c == ctx[as_raw(sessions[o])]
        want == gcry_cipher_get_algo_keylen(c.algo)
        padded == IF Len(key) < want
                  THEN key \o [i \in 1..(want - Len(key)) |-> 0] ELSE key
    IN /\ sessions[o] # NoSession
       /\ Method(o, "set_key", "gcry_cipher_setkey", Len(padded),
                 gcry_cipher_setkey(c, padded, Len(padded)), key, <<>>)

set_key(o, key) ==
    /\ sessions[o] # NoSession
    /\ Method(o, "set_key", "gcry_cipher_setkey", Len(key),
              gcry_cipher_setkey(ctx[as_raw(sessions[o])], key, Len(key)),
              key, <<>>)

set_iv(o, iv) ==
    /\ sessions[o] # NoSession
    /\ Method(o, "set_iv", "gcry_cipher_setiv", Len(iv),
              gcry_cipher_setiv(ctx[as_raw(sessions[o])], iv, Len(iv)),
              iv, <<>>)

set_ctr(o, ctr) ==
    /\ sessions[o] # NoSession
    /\ Method(o, "set_ctr", "gcry_cipher_setctr", Len(ctr),
              gcry_cipher_setctr(ctx[as_raw(sessions[o])], ctr, Len(ctr)),
              ctr, <<>>)

\* Mutant of reset: Ok(()) is returned without the native reset.
reset_without_call(o) ==
    /\ sessions[o] # NoSession
    /\ Invoke(o, "reset", <<>>,
              NativeRet(GPG_ERR_NO_ERROR, ctx[as_raw(sessions[o])], <<>>), Ok,
              <<>>, <<>>)

reset(o) ==
    /\ sessions[o] # NoSession
    /\ Method(o, "reset", "gcry_cipher_reset", 0,
              gcry_cipher_reset(ctx[as_raw(sessions[o])]), <<>>, <<>>)

\* Mutant of authenticate: the status is dropped (no return_err!).
authenticate_unchecked(o, bytes) ==
    LET r == gcry_cipher_authenticate(ctx[as_raw(sessions[o])], bytes, Len(bytes))
    IN /\ sessions[o] # NoSession
       /\ Invoke(o, "authenticate",
                 <<Call("gcry_cipher_authenticate", as_raw(sessions[o]), Len(bytes),
                        r.status)>>,
                 r, Ok, bytes, <<>>)

authenticate(o, bytes) ==
    /\ sessions[o] # NoSession
    /\ Method(o, "authenticate", "gcry_cipher_authenticate", Len(bytes),
              gcry_cipher_authenticate(ctx[as_raw(sessions[o])], bytes, Len(bytes)),
              bytes, <<>>)

\* Mutant of get_tag: the status is dropped (no return_err!).
get_tag_unchecked(o, tag) ==
    LET r == gcry_cipher_gettag(ctx[as_raw(sessions[o])], tag, Len(tag))
    IN /\ sessions[o] # NoSession
       /\ Invoke(o, "get_tag",
                 <<Call("gcry_cipher_gettag", as_raw(sessions[o]), Len(tag),
                        r.status)>>,
                 r, Ok, <<>>, tag)

get_tag(o, tag) ==
    /\ sessions[o] # NoSession
    /\ Method(o, "get_tag", "gcry_cipher_gettag", Len(tag),
              gcry_cipher_gettag(ctx[as_raw(sessions[o])], tag, Len(tag)),
              <<>>, tag)

\* Mutant of verify_tag: the status is dropped (no return_err!).
verify_tag_unchecked(o, tag) ==
    LET r == gcry_cipher_checktag(ctx[as_raw(sessions[o])], tag, Len(tag))
    IN /\ sessions[o] # NoSession
       /\ Invoke(o, "verify_tag",
                 <<Call("gcry_cipher_checktag", as_raw(sessions[o]), Len(tag),
                        r.status)>>,
                 r, Ok, tag, <<>>)

\* Mutant of verify_tag: the length passed leaves out the last byte of the tag.
verify_tag_truncated(o, tag) ==
    /\ sessions[o] # NoSession
    /\ Method(o, "verify_tag", "gcry_cipher_checktag", Len(tag) - 1,
              gcry_cipher_checktag(ctx[as_raw(sessions[o])], tag, Len(tag) - 1),
              tag, <<>>)

verify_tag(o, tag) ==
    /\ sessions[o] # NoSession
    /\ Method(o, "verify_tag", "gcry_cipher_checktag", Len(tag),
              gcry_cipher_checktag(ctx[as_raw(sessions[o])], tag, Len(tag)),
              tag, <<>>)

\* Mutant of encrypt: the status is dropped (no return_err!).
encrypt_unchecked(o, input, output) ==
    LET r == gcry_cipher_encrypt(ctx[as_raw(sessions[o])], output, Len(output),
                                 input, Len(input))
    IN /\ sessions[o] # NoSession
       /\ Invoke(o, "encrypt",
                 <<Call("gcry_cipher_encrypt", as_raw(sessions[o]), Len(input),
                        r.status)>>,
                 r, Ok, input, output)

encrypt(o, input, output) ==
    /\ sessions[o] # NoSession
    /\ Method(o, "encrypt", "gcry_cipher_encrypt", Len(input),
              gcry_cipher_encrypt(ctx[as_raw(sessions[o])], output, Len(output),
                                  input, Len(input)),
              input, output)

\* Mutant of decrypt: a failing native call is tried a second time.
decrypt_retrying(o, input, output) ==
    LET h == as_raw(sessions[o])
        r1 == gcry_cipher_decrypt(ctx[h], output, Len(output), input, Len(input))
        r2 == gcry_cipher_decrypt(r1.ctx, r1.out, Len(output), input, Len(input))
        c1 == Call("gcry_cipher_decrypt", h, Len(input), r1.status)
        c2 == Call("gcry_cipher_decrypt", h, Len(input), r2.status)
    IN /\ sessions[o] # NoSession
       /\ IF r1.status = GPG_ERR_NO_ERROR
          THEN Invoke(o, "decrypt", <<c1>>, r1, Ok, input, output)
          ELSE Invoke(o, "decrypt", <<c1, c2>>, r2, return_err(r2.status),
                      input, output)

\* Mutant of decrypt: the body of encrypt, copied without changing the entry
\* point.
decrypt_as_encrypt(o, input, output) ==
    /\ sessions[o] # NoSession
    /\ Method(o, "decrypt", "gcry_cipher_encrypt", Len(input),
              gcry_cipher_encrypt(ctx[as_raw(sessions[o])], output, Len(output),
                                  input, Len(input)),
              input, output)

decrypt(o, input, output) ==
    /\ sessions[o] # NoSession
    /\ Method(o, "decrypt", "gcry_cipher_decrypt", Len(input),
              gcry_cipher_decrypt(ctx[as_raw(sessions[o])], output, Len(output),
                                  input, Len(input)),
              input, output)

\* Mutant of encrypt_inplace: the native entry point of decrypt_inplace.
encrypt_inplace_as_decrypt(o, buffer) ==
    /\ sessions[o] # NoSession
    /\ Method(o, "encrypt_inplace", "gcry_cipher_decrypt", 0,
              gcry_cipher_decrypt(ctx[as_raw(sessions[o])], buffer, Len(buffer),
                                  NullPtr, 0),
              <<>>, buffer)

encrypt_inplace(o, buffer) ==
    /\ sessions[o] # NoSession
    /\ Method(o, "encrypt_inplace", "gcry_cipher_encrypt", 0,
              gcry_cipher_encrypt(ctx[as_raw(sessions[o])], buffer, Len(buffer),
                                  NullPtr, 0),
              <<>>, buffer)

decrypt_inplace(o, buffer) ==
    /\ sessions[o] # NoSession
    /\ Method(o, "decrypt_inplace", "gcry_cipher_decrypt", 0,
              gcry_cipher_decrypt(ctx[as_raw(sessions[o])], buffer, Len(buffer),
                                  NullPtr, 0),
              <<>>, buffer)

\* Catalog queries: they take no Session.
CatalogStep ==
    \/ \E n \in Names : from_name(n)
    \/ \E a \in Algorithm : is_available(a)
    \/ \E a \in Algorithm : name(a)
    \/ \E a \in Algorithm : key_len(a)
    \/ \E a \in Algorithm : block_len(a)
    \/ \E oid \in Oids : from_oid(oid)

\* What callers in the scopes `owners` can do with Sessions, passing byte
\* strings from `args`, output buffers from `outs`, and opening in `modes`.
\* The &mut self methods, called on the Session of scope o.
MethodCall(o, args, outs) ==
    \/ \E key \in args : set_key(o, key)
    \/ \E iv \in args : set_iv(o, iv)
    \/ \E ctr \in args : set_ctr(o, ctr)
    \/ reset(o)
    \/ \E aad \in args : authenticate(o, aad)
    \/ \E tag \in outs : get_tag(o, tag)
    \/ \E tag \in args : verify_tag(o, tag)
    \/ \E input \in args, output \in outs : encrypt(o, input, output)
    \/ \E input \in args, output \in outs : decrypt(o, input, output)
    \/ \E buffer \in args : encrypt_inplace(o, buffer)
    \/ \E buffer \in args : decrypt_inplace(o, buffer)

SessionStep(owners, modes, args, outs) ==
    \/ \E o \in owners, a \in Algorithm, m \in modes, oom \in BOOLEAN : new(o, a, m, oom)
    \/ \E o \in owners, a \in Algorithm, m \in modes, f \in Flags, oom \in BOOLEAN :
          with_flags(o, a, m, f, oom)
    \/ \E o \in owners : drop(o)
    \/ \E o \in owners : MethodCall(o, args, outs)

\* One scope using one Session at a time, with every argument of Args.
Next ==
    /\ \/ CatalogStep
       \/ SessionStep({"a"}, OpenModes, Args, OutBufs)
    /\ UNCHANGED <<scen, active>>

Spec == Init /\ [][Next]_vars

\* Two scopes holding Sessions side by side and handing them to each other.
LifeArgs == {<<1>>, <<0, 1>>}
LifeOuts == {<<1, 1>>}
LifeModes == {"Cbc", "Stream"}

NextLife ==
    /\ \/ CatalogStep
       \/ SessionStep(Owners, LifeModes, LifeArgs, LifeOuts)
       \/ \E o \in Owners, t \in Owners : move(o, t)
    /\ UNCHANGED <<scen, active>>

SpecLife == Init /\ [][NextLife]_vars

\* ------------------------------------------------------- concurrent callers
\* Threads calling into Sessions they can reach. A method runs from the
\* moment its caller takes the borrow (Enter) to the return of its native
\* call (Return); the wrapper takes no lock in between.
Threads == {"t1", "t2"}

\* Threads inside a method of the Session of scope o.
Inside(o) == {r.thread : r \in active[o]}

\* Mutant of BorrowMut: the methods take &self, which any number of callers
\* can hold.
BorrowShared(o) == TRUE

\* &mut self: the borrow is granted only when nobody else holds one.
BorrowMut(o) == active[o] = {}

\* Thread t calls a method of the Session of scope o.
Enter(t, o) ==
    /\ sessions[o] # NoSession
    /\ \A x \in Owners : t \notin Inside(x)
    /\ BorrowMut(o)
    /\ active' = [active EXCEPT
                     ![o] = @ \cup {[thread |-> t, seen |-> ctx[as_raw(sessions[o])]]}]
    /\ UNCHANGED <<ctx, closes, nextHandle, sessions, initialized,
                   calledBeforeInit, last, scen>>

\* The native call of the method thread t is in is made and the method
\* returns, ending the borrow.
Return(t, o) ==
    /\ t \in Inside(o)
    /\ MethodCall(o, LifeArgs, LifeOuts)
    /\ active' = [active EXCEPT ![o] = {r \in @ : r.thread # t}]
    /\ UNCHANGED scen

NextConc ==
    \/ /\ \E o \in Owners, a \in Algorithm, m \in LifeModes, oom \in BOOLEAN :
             new(o, a, m, oom)
       /\ UNCHANGED <<scen, active>>
    \/ /\ \E o \in Owners : BorrowMut(o) /\ drop(o)
       /\ UNCHANGED <<scen, active>>
    \/ \E t \in Threads, o \in Owners : Enter(t, o)
    \/ \E t \in Threads, o \in Owners : Return(t, o)

SpecConc == Init /\ [][NextConc]_vars

\* ---------------------------------------------------------- scripted usage
\* Two Sessions, in scopes "a" and "b", driven through a fixed sequence of
\* calls; the result of every call is kept so that the two can be compared.
Step(o, op, arg, out) == [o |-> o, op |-> op, arg |-> arg, out |-> out]
\* A zeroed output buffer of n bytes.
Blank(n) == [i \in 1..n |-> 0]
\* s with byte i flipped.
Flip(s, i) == [s EXCEPT ![i] = Xor(@, 1)]

\* Keys of the algorithm's key length, IVs of the mode's IV length.
ScenKeys == {k \in Args : Len(k) = gcry_cipher_get_algo_keylen("Aes128")}
ScenIvs(mode) == {v \in Bytes : Len(v) = IvLen(mode)}
\* First messages: one block.
ScenFirst == {m \in Args : Len(m) = gcry_cipher_get_algo_blklen("Aes128")}
\* Messages of up to several blocks.
ScenLong == SeqsUpTo(MaxLen + MaxLen)
ScenModes == {"Cbc", "Ctr", "Gcm"}

\* The output buffer of step i, once it has run.
OutOf(sc, i) == IF i <= Len(sc.res) THEN sc.res[i].out ELSE <<>>
\* s as the second Session receives it: one byte flipped if s is what the
\* usage tampers with.
Tampered(sc, what, s) ==
    IF sc.tamper = what /\ sc.at \in 1..Len(s) THEN Flip(s, sc.at) ELSE s

\* open, set_key, set_iv.
Configure(o, sc, iv) ==
    <<Step(o, "new", <<>>, <<>>), Step(o, "set_key", sc.key, <<>>),
      Step(o, "set_iv", iv, <<>>)>>

\* "a" encrypts p1, is reset, gets iv and encrypts p; "b" is brand new.
ResetScript(sc) ==
    Configure("a", sc, sc.iv1)
    \o <<Step("a", "encrypt", sc.p1, Blank(Len(sc.p1))),
         Step("a", "reset", <<>>, <<>>),
         Step("a", "set_iv", sc.iv, <<>>),
         Step("a", "encrypt", sc.p, Blank(Len(sc.p)))>>
    \o Configure("b", sc, sc.iv)
    \o <<Step("b", "encrypt", sc.p, Blank(Len(sc.p)))>>

\* "a" encrypts p; "b", configured alike, decrypts what "a" produced.
RoundTripScript(sc) ==
    Configure("a", sc, sc.iv)
    \o <<Step("a", "encrypt", sc.p, Blank(Len(sc.p)))>>
    \o Configure("b", sc, sc.iv)
    \o <<Step("b", "decrypt", OutOf(sc, 4), Blank(Len(sc.p)))>>

\* "a" authenticates aad, encrypts p and extracts the tag; "b" authenticates,
\* decrypts and verifies what reaches it.
AeadScript(sc) ==
    Configure("a", sc, sc.iv)
    \o <<Step("a", "authenticate", sc.aad, <<>>),
         Step("a", "encrypt", sc.p, Blank(Len(sc.p))),
         Step("a", "get_tag", <<>>, Blank(TagLen(sc.mode)))>>
    \o Configure("b", sc, sc.iv)
    \o <<Step("b", "authenticate", Tampered(sc, "aad", sc.aad), <<>>),
         Step("b", "decrypt", Tampered(sc, "ciphertext", OutOf(sc, 5)),
              Blank(Len(sc.p))),
         Step("b", "verify_tag", Tampered(sc, "tag", OutOf(sc, 6)), <<>>)>>

\* The first level calls of: open, set_key, set_iv, encrypt of a first message.
Prefix(o, sc) ==
    SubSeq(Configure(o, sc, sc.iv)
           \o <<Step(o, "encrypt", sc.p1, Blank(Len(sc.p1)))>>,
           1, sc.level)

\* Both Sessions are brought to the same state; "a" then transforms p in
\* place, "b" from p into the separate buffer out0, of the same length.
InplaceScript(sc) ==
    Prefix("a", sc) \o <<Step("a", sc.dir \o "_inplace", <<>>, sc.p)>>
    \o Prefix("b", sc) \o <<Step("b", sc.dir, sc.p, sc.out0)>>

\* "a" is opened with new, "b" with with_flags and no flag.
OpenScript(sc) ==
    <<Step("a", "new", <<>>, <<>>), Step("b", "with_flags", <<>>, <<>>)>>

Script(sc) ==
    CASE sc.kind = "reset" -> ResetScript(sc)
      [] sc.kind = "roundtrip" -> RoundTripScript(sc)
      [] sc.kind = "aead" -> AeadScript(sc)
      [] sc.kind = "inplace" -> InplaceScript(sc)
      [] sc.kind = "open" -> OpenScript(sc)
      [] OTHER -> <<>>

\* A usage: the fields f gives, the defaults for the others.
ScenDefault ==
    [kind |-> "none", mode |-> "Cbc", key |-> <<>>, iv |-> <<>>, iv1 |-> <<>>,
     p |-> <<>>, p1 |-> <<>>, aad |-> <<>>, tamper |-> "none", at |-> 0,
     level |-> 0, dir |-> "-", out0 |-> <<>>, oom |-> FALSE,
     pc |-> 0, res |-> <<>>]

Scen(f) ==
    [x \in DOMAIN ScenDefault |-> IF x \in DOMAIN f THEN f[x] ELSE ScenDefault[x]]

\* Places where one byte can be flipped on the way to the second Session.
Tampers(p, aad, mode) ==
    {<<"none", 0>>}
    \cup {<<"ciphertext", i>> : i \in 1..Len(p)}
    \cup {<<"aad", i>> : i \in 1..Len(aad)}
    \cup {<<"tag", i>> : i \in 1..TagLen(mode)}

Scenarios ==
    {Scen([kind |-> "reset", mode |-> m, key |-> k, iv |-> iv, iv1 |-> iv1,
           p |-> p, p1 |-> p1]) :
        m \in ScenModes, k \in ScenKeys, iv \in ScenIvs("Cbc"),
        iv1 \in ScenIvs("Cbc"), p \in Bytes, p1 \in ScenFirst}
    \cup
    {Scen([kind |-> "roundtrip", mode |-> m, key |-> k, iv |-> iv, p |-> p]) :
        m \in ScenModes \ AeadModes, k \in ScenKeys, iv \in ScenIvs("Cbc"),
        p \in ScenLong}
    \cup
    UNION {{Scen([kind |-> "aead", mode |-> m, key |-> k, iv |-> iv, p |-> p,
                  aad |-> aad, tamper |-> t[1], at |-> t[2]]) :
               t \in Tampers(p, aad, m)} :
             m \in AeadModes, k \in ScenKeys, iv \in ScenIvs("Gcm"),
             p \in Bytes, aad \in Bytes}
    \cup
    UNION {{Scen([kind |-> "inplace", mode |-> m, key |-> k, iv |-> iv, p |-> p,
                  p1 |-> p1, level |-> level, dir |-> dir, out0 |-> out0]) :
               out0 \in {Blank(Len(p)), p}} :
             m \in ScenModes, k \in ScenKeys, iv \in ScenIvs("Cbc"), p \in Bytes,
             p1 \in ScenFirst, level \in 1..4, dir \in {"encrypt", "decrypt"}}
    \cup
    {Scen([kind |-> "open", mode |-> m, oom |-> oom]) :
        m \in Mode, oom \in BOOLEAN}

\* What a native call handed over, whichever handle it went to.
Issued(calls) ==
    [i \in 1..Len(calls) |->
        [fn |-> calls[i].fn, n |-> calls[i].n, status |-> calls[i].status]]

\* Result of the call just made for owner o: what it returned, the caller's
\* buffer, the native call issued and the context afterwards.
Outcome(o) ==
    [ret |-> last'.ret, out |-> last'.outAfter, issued |-> Issued(last'.calls),
     ctx |-> IF sessions'[o] = NoSession THEN NoCtx ELSE ctx'[as_raw(sessions'[o])]]

Run(sc, st) ==
    \/ st.op = "new" /\ \E a \in Algorithm : new(st.o, a, sc.mode, sc.oom)
    \/ st.op = "with_flags"
          /\ \E a \in Algorithm : with_flags(st.o, a, sc.mode, FLAG_NONE, sc.oom)
    \/ st.op = "set_key" /\ set_key(st.o, st.arg)
    \/ st.op = "set_iv" /\ set_iv(st.o, st.arg)
    \/ st.op = "reset" /\ reset(st.o)
    \/ st.op = "authenticate" /\ authenticate(st.o, st.arg)
    \/ st.op = "get_tag" /\ get_tag(st.o, st.out)
    \/ st.op = "verify_tag" /\ verify_tag(st.o, st.arg)
    \/ st.op = "encrypt" /\ encrypt(st.o, st.arg, st.out)
    \/ st.op = "decrypt" /\ decrypt(st.o, st.arg, st.out)
    \/ st.op = "encrypt_inplace" /\ encrypt_inplace(st.o, st.out)
    \/ st.op = "decrypt_inplace" /\ decrypt_inplace(st.o, st.out)

\* The next call of the script is made and its result kept.
ScenStep ==
    /\ scen.pc < Len(Script(scen))
    /\ LET st == Script(scen)[scen.pc + 1]
       IN /\ Run(scen, st)
          /\ scen' = [scen EXCEPT !.pc = @ + 1, !.res = Append(@, Outcome(st.o))]
    /\ UNCHANGED active

NextScen == ScenStep

SpecScen == (\E sc \in Scenarios : InitWith(sc)) /\ [][NextScen]_vars

\* The script of kind has been played to its end.
Played(kind) == scen.kind = kind /\ scen.pc = Len(Script(scen))

\* ------------------------------------------------------------- properties
\* The &mut self methods of Cipher and the native entry point each stands for.
MethodOps ==
    {"set_key", "set_iv", "set_ctr", "reset", "authenticate", "get_tag",
     "verify_tag", "encrypt", "decrypt", "encrypt_inplace", "decrypt_inplace"}

NativeFn(op) ==
    CASE op = "set_key" -> "gcry_cipher_setkey"
      [] op = "set_iv" -> "gcry_cipher_setiv"
      [] op = "set_ctr" -> "gcry_cipher_setctr"
      [] op = "reset" -> "gcry_cipher_reset"
      [] op = "authenticate" -> "gcry_cipher_authenticate"
      [] op = "get_tag" -> "gcry_cipher_gettag"
      [] op = "verify_tag" -> "gcry_cipher_checktag"
      [] op \in {"encrypt", "encrypt_inplace"} -> "gcry_cipher_encrypt"
      [] op \in {"decrypt", "decrypt_inplace"} -> "gcry_cipher_decrypt"
      [] OTHER -> "-"

OwnersOf(h) == {o \in Owners : sessions[o] = h}
\* Handles a successful open has returned so far.
Opened == {h \in Handles : h < nextHandle}

\* C1: every context a successful open returned is closed exactly once, by the
\* drop of its Session: no close while the Session exists, one close (never
\* two) once it is gone, whatever was done with the Session in between.
C1_ClosedExactlyOnceAtDrop ==
    /\ \A h \in Opened :
          closes[h] = (IF OwnersOf(h) = {} THEN 1 ELSE 0)
    /\ \A h \in Handles \ Opened : closes[h] = 0
    /\ last.op = "drop" =>
          /\ closes[last.h] = 1
          /\ last.calls = <<[fn |-> "gcry_cipher_close", h |-> last.h, n |-> 0,
                             status |-> GPG_ERR_NO_ERROR, live |-> TRUE]>>

\* A Session that was configured and used is dropped; its context is closed.
C1_Witness ==
    /\ last.op = "drop"
    /\ last.pre.st = "Operative"
    /\ closes[last.h] = 1
    /\ ctx[last.h].phase = "closed"

\* C2: each live context is owned by exactly one Session and each Session
\* wraps one live context; a move never leaves two Sessions on one context.
C2_OneSessionPerContext ==
    /\ \A h \in Handles :
          ctx[h].phase = "live" <=> Cardinality(OwnersOf(h)) = 1
    /\ \A h \in Handles : Cardinality(OwnersOf(h)) <= 1
    /\ \A o \in Owners :
          sessions[o] # NoSession =>
             sessions[o] \in Handles /\ ctx[sessions[o]].phase = "live"

\* A Session in use has just been moved to another owner, which is now the
\* only owner of its context; another context was opened and closed before.
C2_Witness ==
    /\ last.op = "move"
    /\ OwnersOf(last.h) = {last.owner}
    /\ ctx[last.h].phase = "live"
    /\ ctx[last.h].st = "Operative"
    /\ \E h \in Handles : ctx[h].phase = "closed"

\* C3: an open whose native call returns a non-zero status returns an error
\* carrying that status and creates no Session; nothing is ever closed for it
\* (no close of the NULL handle, no more closes than successful opens).
C3_FailedOpen ==
    /\ (last.op = "open" /\ last.calls[1].status # GPG_ERR_NO_ERROR) =>
          /\ last.ret = [ok |-> FALSE, code |-> last.calls[1].status]
          /\ last.val # "Cipher"
          /\ sessions[last.owner] = NoSession
    /\ \A o \in Owners : sessions[o] # NULL
    /\ closes[NULL] = 0

\* An unsupported algorithm/mode combination is refused at open.
C3_Witness ==
    /\ last.op = "open"
    /\ last.calls[1].status = GPG_ERR_INV_CIPHER_MODE
    /\ ~last.ret.ok
    /\ nextHandle = 1

\* C4: every Session method issues exactly one native call, returns Ok iff
\* that call's status is 0 and otherwise Err with the same status code.
C4_OneCallStatusSurfaced ==
    last.op \in MethodOps =>
       /\ Len(last.calls) = 1
       /\ last.calls[1].fn = NativeFn(last.op)
       /\ last.ret.ok <=> last.calls[1].status = GPG_ERR_NO_ERROR
       /\ last.ret.code = last.calls[1].status

\* A decrypt on a block mode with an unaligned input fails with the native code.
C4_Witness ==
    /\ last.op = "decrypt"
    /\ last.calls[1].status = GPG_ERR_INV_LENGTH
    /\ last.ret = [ok |-> FALSE, code |-> GPG_ERR_INV_LENGTH]

\* C5: library initialization has been triggered before the first native call,
\* whichever entry point makes it.
C5_InitBeforeFirstNativeCall == ~calledBeforeInit

\* C6: encrypt on a Session on which no set_key has succeeded returns a
\* state-related error and leaves the output buffer as it was.
C6_EncryptUnkeyedFails ==
    (last.op = "encrypt" /\ last.pre.st = "Open") =>
       /\ ~last.ret.ok
       /\ IsStateError(last.ret.code)
       /\ last.outAfter = last.outBefore

\* encrypt of a non-empty input into a large enough buffer, before any key.
C6_Witness ==
    /\ last.op = "encrypt"
    /\ last.pre.st = "Open"
    /\ Len(last.arg) > 0
    /\ Len(last.outBefore) >= Len(last.arg)
    /\ ~last.ret.ok

\* C7: set_key with a key whose length is not the algorithm's key length
\* returns the invalid-key-length error and installs nothing: the context
\* (key and configuration state) is what it was before the call.
C7_WrongKeyLengthRejected ==
    (last.op = "set_key"
        /\ Len(last.arg) # gcry_cipher_get_algo_keylen(last.pre.algo)) =>
       /\ last.ret = [ok |-> FALSE, code |-> GPG_ERR_INV_KEYLEN]
       /\ ctx[last.h] = last.pre

\* A short key is offered to an unkeyed Session, which stays unkeyed.
C7_Witness ==
    /\ last.op = "set_key"
    /\ Len(last.arg) = 1
    /\ last.pre.st = "Open"
    /\ ctx[last.h].st = "Open"
    /\ ~last.ret.ok

\* The orders of section 4.4: what the native configuration state machine
\* forbids in the state of context c.
Forbidden(c, fn) ==
    \/ fn \in {"gcry_cipher_setiv", "gcry_cipher_setctr"}
          /\ c.st \notin {"Keyed", "Ready"}
    \/ fn = "gcry_cipher_authenticate" /\ c.st \notin {"Ready", "Authenticating"}
    \/ fn \in {"gcry_cipher_encrypt", "gcry_cipher_decrypt"}
          /\ c.st \notin {"Ready", "Authenticating", "Operative"}
    \/ fn \in {"gcry_cipher_gettag", "gcry_cipher_checktag"} /\ c.st # "Operative"

\* C8 as claimed: no native call is issued in an order the native
\* configuration state machine forbids.
C8_NeverForbiddenOrder ==
    last.op \in MethodOps =>
       \A i \in 1..Len(last.calls) : ~Forbidden(last.pre, last.calls[i].fn)

\* C8 as the code has it: the wrapper issues the one native call the method
\* stands for, on the Session's own live context, whatever the configuration
\* state; a call made in a forbidden order is rejected by the native layer,
\* the error is returned and the context is left as it was.
C8_ForbiddenOrderRejected ==
    last.op \in MethodOps =>
       /\ Len(last.calls) = 1
       /\ last.calls[1].fn = NativeFn(last.op)
       /\ last.calls[1].h = sessions[last.owner]
       /\ last.calls[1].live
       /\ Forbidden(last.pre, last.calls[1].fn) =>
             /\ last.calls[1].status # GPG_ERR_NO_ERROR
             /\ last.ret = [ok |-> FALSE, code |-> last.calls[1].status]
             /\ ctx[last.h] = last.pre

\* set_iv after data has been processed: issued, and rejected.
C8_Witness ==
    /\ last.op = "set_iv"
    /\ last.pre.st = "Operative"
    /\ Forbidden(last.pre, last.calls[1].fn)
    /\ last.ret = [ok |-> FALSE, code |-> GPG_ERR_INV_STATE]

\* C9: on an AEAD session authenticate succeeds only with key and IV set and
\* no encrypt/decrypt processed yet; before keying or IV setup, or after
\* data has been processed, it returns a state error.
C9_AuthenticateOrder ==
    (last.op = "authenticate" /\ last.pre.mode \in AeadModes) =>
       /\ last.ret.ok => last.pre.st \in {"Ready", "Authenticating"}
       /\ last.ret.ok => ctx[last.h].st = "Authenticating"
       /\ last.pre.st \in {"Open", "Keyed", "Operative"} =>
             ~last.ret.ok /\ IsStateError(last.ret.code)

\* authenticate after an encrypt of the same message is refused.
C9_Witness ==
    /\ last.op = "authenticate"
    /\ last.pre.mode = "Gcm"
    /\ last.pre.st = "Operative"
    /\ last.ret = [ok |-> FALSE, code |-> GPG_ERR_INV_STATE]

\* C10: a successful reset from Keyed, Ready, Authenticating or Operative
\* leaves the session Keyed with the installed key unchanged and with IV,
\* counter and authentication state cleared.
C10_ResetKeepsKey ==
    (last.op = "reset" /\ last.ret.ok
        /\ last.pre.st \in {"Keyed", "Ready", "Authenticating", "Operative"}) =>
       /\ ctx[last.h].st = "Keyed"
       /\ ctx[last.h].key = last.pre.key
       /\ ctx[last.h].iv = <<>>
       /\ ctx[last.h].chain = 0
       /\ ctx[last.h].auth = 0

\* reset of an AEAD session in the middle of a message with IV and
\* authentication state set.
C10_Witness ==
    /\ last.op = "reset"
    /\ last.ret.ok
    /\ last.pre.st = "Operative"
    /\ last.pre.iv # <<>>
    /\ last.pre.auth = 1
    /\ last.pre.key = <<0, 1>>
    /\ ctx[last.h].key = <<0, 1>>

\* C15: on an AEAD session get_tag returns an error and leaves the caller's
\* buffer as it was when the buffer length is not the tag size of the mode or
\* when no data has been processed yet; it succeeds, delivering the computed
\* tag, only once the session is Operative.
C15_GetTagLengthAndOrder ==
    (last.op = "get_tag" /\ last.pre.mode \in AeadModes) =>
       /\ (Len(last.outBefore) # TagLen(last.pre.mode) \/ last.pre.st # "Operative") =>
             ~last.ret.ok /\ last.outAfter = last.outBefore
       /\ last.ret.ok =>
             /\ last.pre.st = "Operative"
             /\ last.outAfter = ComputedTag(last.pre)

\* get_tag into a buffer of the wrong size after the plaintext was processed.
C15_Witness ==
    /\ last.op = "get_tag"
    /\ last.pre.mode = "Gcm"
    /\ last.pre.st = "Operative"
    /\ Len(last.outBefore) = 2
    /\ last.ret = [ok |-> FALSE, code |-> GPG_ERR_INV_LENGTH]

\* C16: encrypt and decrypt return an error, writing nothing, when the output
\* buffer is shorter than the input or when a block mode gets an input that
\* is no multiple of the block length; the native call is handed exactly the
\* input's length, the output keeps its length and nothing is written past
\* the bytes the input covers.
C16_BufferRules ==
    last.op \in {"encrypt", "decrypt"} =>
       /\ (Len(last.outBefore) < Len(last.arg)
             \/ (last.pre.mode = "Cbc"
                   /\ Len(last.arg) % gcry_cipher_get_algo_blklen(last.pre.algo) # 0)) =>
             ~last.ret.ok /\ last.outAfter = last.outBefore
       /\ \A i \in 1..Len(last.calls) : last.calls[i].n = Len(last.arg)
       /\ Len(last.outAfter) = Len(last.outBefore)
       /\ \A i \in 1..Len(last.outAfter) :
             i > Len(last.arg) => last.outAfter[i] = last.outBefore[i]

\* encrypt on a configured block-mode session into a buffer that is too short.
C16_Witness ==
    /\ last.op = "encrypt"
    /\ last.pre.mode = "Cbc"
    /\ last.pre.st = "Ready"
    /\ Len(last.arg) = 2
    /\ Len(last.outBefore) = 1
    /\ last.ret = [ok |-> FALSE, code |-> GPG_ERR_BUFFER_TOO_SHORT]

\* C18: every native call made for a Session, the close of its drop
\* included, targets a context a successful open returned and that had not
\* been closed when the call was made.
C18_NoCallAfterClose ==
    last.op \in MethodOps \cup {"drop"} =>
       \A i \in 1..Len(last.calls) :
          /\ last.calls[i].h \in Opened
          /\ last.calls[i].live
          /\ closes[last.calls[i].h] = (IF last.op = "drop" THEN 1 ELSE 0)

\* A method is called on one Session after another Session was dropped.
C18_Witness ==
    /\ last.op = "encrypt"
    /\ last.ret.ok
    /\ last.calls[1].live
    /\ \E h \in Handles : h # last.h /\ ctx[h].phase = "closed"

\* C11: once a Session has encrypted one message, reset, set_iv(iv) and
\* encrypt(p) succeed or fail as on a brand-new Session opened with the same
\* algorithm and mode and given the same key, iv and p, and produce the same
\* ciphertext.
C11_ResetLikeFresh ==
    (Played("reset") /\ scen.res[4].ret.ok) =>
       /\ scen.res[5].ret.ok
       /\ scen.res[6].ret.ok
       /\ scen.res[7].ret = scen.res[11].ret
       /\ scen.res[7].out = scen.res[11].out

\* A second message under another IV than the first, encrypted successfully.
C11_Witness ==
    /\ Played("reset")
    /\ scen.res[4].ret.ok
    /\ scen.res[7].ret.ok
    /\ scen.iv # scen.iv1
    /\ Len(scen.p) = MaxLen
    /\ scen.res[7].out # scen.p

\* C12: in every mode without authentication, for every key, IV and
\* plaintext whose length is a multiple of the block length (zero included),
\* encrypt succeeds and decrypt on a Session set up with the same key and IV
\* returns the plaintext.
C12_RoundTrip ==
    (Played("roundtrip")
       /\ Len(scen.p) % gcry_cipher_get_algo_blklen("Aes128") = 0) =>
       /\ \A i \in 1..Len(scen.res) : scen.res[i].ret.ok
       /\ scen.res[8].out = scen.p

\* A plaintext of two blocks, changed by encryption, comes back in CBC.
C12_Witness ==
    /\ Played("roundtrip")
    /\ scen.mode = "Cbc"
    /\ Len(scen.p) = 2 * gcry_cipher_get_algo_blklen("Aes128")
    /\ scen.res[4].out # scen.p
    /\ scen.res[8].out = scen.p

\* C13: when the AAD, ciphertext and tag of an AEAD encryption reach a fresh
\* Session with the same key and IV unchanged, authenticate, decrypt and
\* verify_tag all succeed and decrypt returns the plaintext.
C13_AeadRoundTrip ==
    (Played("aead") /\ scen.tamper = "none") =>
       /\ \A i \in 1..Len(scen.res) : scen.res[i].ret.ok
       /\ scen.res[11].out = scen.p
       /\ scen.res[12].ret = Ok

\* AAD and plaintext are both present and the tag verifies.
C13_Witness ==
    /\ Played("aead")
    /\ scen.tamper = "none"
    /\ Len(scen.aad) > 0
    /\ Len(scen.p) = MaxLen
    /\ scen.res[12].ret.ok

\* C14: when one byte of the ciphertext, of the tag or of the AAD is flipped
\* on the way to the decrypting Session, verify_tag returns the checksum
\* error, a code that is none of the length, state or other failure codes.
C14_TamperDetected ==
    (Played("aead") /\ scen.tamper # "none") =>
       /\ \A i \in 1..11 : scen.res[i].ret.ok
       /\ scen.res[12].ret = Err(GPG_ERR_CHECKSUM)
       /\ ~IsStateError(scen.res[12].ret.code)
       /\ scen.res[12].ret.code \notin
             {GPG_ERR_NO_ERROR, GPG_ERR_INV_LENGTH, GPG_ERR_INV_ARG,
              GPG_ERR_BUFFER_TOO_SHORT, GPG_ERR_INV_KEYLEN, GPG_ERR_CIPHER_ALGO,
              GPG_ERR_INV_CIPHER_MODE, GPG_ERR_ENOMEM}

\* A flipped ciphertext byte is decrypted and the tag then refused.
C14_Witness ==
    /\ Played("aead")
    /\ scen.tamper = "ciphertext"
    /\ scen.res[11].ret.ok
    /\ scen.res[11].out # scen.p
    /\ ~scen.res[12].ret.ok

\* C17 as stated: from the same Session state, encrypt_inplace(b) and
\* encrypt with input b and any output of the same length (likewise the
\* decrypt pair) return the same result, leave the same bytes in the buffer
\* and leave the Session in the same state.
C17_InplaceSameBuffer ==
    Played("inplace") =>
       LET i == scen.level + 1
       IN /\ scen.res[i].ret = scen.res[2 * i].ret
          /\ scen.res[i].out = scen.res[2 * i].out
          /\ scen.res[i].ctx = scen.res[2 * i].ctx

\* C17: from the same Session state, encrypt_inplace(b) and encrypt with
\* input b and an output of the same length (likewise the decrypt pair)
\* return the same result and leave the Session in the same state; when they
\* succeed the buffers end with the same bytes, and when they fail each
\* buffer keeps what it held: b in place, the output its earlier contents.
C17_InplaceLikeCopy ==
    Played("inplace") =>
       LET i == scen.level + 1
       IN /\ scen.res[i].ret = scen.res[2 * i].ret
          /\ scen.res[i].ctx = scen.res[2 * i].ctx
          /\ scen.res[i].ret.ok => scen.res[i].out = scen.res[2 * i].out
          /\ ~scen.res[i].ret.ok =>
                /\ scen.res[i].out = scen.p
                /\ scen.res[2 * i].out = scen.out0

\* An in-place encryption that changes the buffer of an Operative Session.
C17_Witness ==
    /\ Played("inplace")
    /\ scen.level = 4
    /\ scen.dir = "encrypt"
    /\ Len(scen.p) = MaxLen
    /\ scen.res[5].ret.ok
    /\ scen.res[5].out # scen.p

\* C20: new(algo, mode) and with_flags(algo, mode, Flags::NONE) issue the
\* same gcry_cipher_open with flag bits 0 and return the same outcome: a
\* Session in the Open state, or the same error.
C20_NewIsWithFlagsNone ==
    Played("open") =>
       /\ scen.res[1].issued = scen.res[2].issued
       /\ Len(scen.res[1].issued) = 1
       /\ scen.res[1].issued[1].fn = "gcry_cipher_open"
       /\ scen.res[1].issued[1].n = FLAG_NONE
       /\ scen.res[1].ret = scen.res[2].ret
       /\ scen.res[1].ctx = scen.res[2].ctx
       /\ scen.res[1].ret.ok => scen.res[1].ctx.st = "Open"

\* Both constructors have returned a Session.
C20_Witness ==
    /\ Played("open")
    /\ scen.res[1].ret.ok
    /\ scen.res[2].ret.ok
    /\ sessions["a"] # NoSession
    /\ sessions["b"] # NoSession

\* C19: whatever the interleaving of callers, at most one of them is inside
\* a method of the Session that owns a context, and the context a method
\* started on is the one its native call finds: no other native call on that
\* context falls between a method's entry and its return.
C19_NoOverlappingCalls ==
    \A h \in Handles :
       /\ Cardinality(UNION {Inside(o) : o \in OwnersOf(h)}) <= 1
       /\ \A o \in OwnersOf(h) : \A r \in active[o] : r.seen = ctx[h]

\* Two threads are inside methods of two different Sessions at once, one of
\* which has already been through earlier calls.
C19_Witness ==
    /\ Inside("a") = {"t1"}
    /\ Inside("b") = {"t2"}
    /\ ctx[as_raw(sessions["a"])].st = "Ready"

====
